---- MODULE Spec2Model ----
(***************************************************************************)
(* The moon-table pipeline of codes.py: a notebook exported as a script.   *)
(* One DataFrame `df` is built from the fetched table and rewritten cell   *)
(* by cell (In[448] .. In[461]); the first statement that raises ends the  *)
(* run.  A cell of the table is modelled as a set: {} is a missing value   *)
(* (NaN), {v} a present value v.  Texts that the code parses or compares   *)
(* (years, periods, names) are sequences of one-character strings; a float *)
(* is the exact decimal m / 10^e, as the record [m, e].                    *)
(***************************************************************************)
EXTENDS Integers, Sequences, FiniteSets, TLC

VARIABLES
    src,      \* the table of the page read_html parses: [columns, rows], the
              \* year and period cells as the page prints them; never written
    df,       \* the rows of the DataFrame, in order; a row maps labels to cells
    columns,  \* df.columns, in order
    index,    \* the names of df's index levels (<<>>: the default RangeIndex)
    pc,       \* the next notebook cell to run, or "aborted"
    err       \* the exception that ended the run: [cell, exc], or NoError

vars == <<src, df, columns, index, pc, err>>

NaN == {}
NoError == [cell |-> "none", exc |-> "none"]
Val(cell) == CHOOSE v \in cell : TRUE
Range(s) == {s[i] : i \in 1..Len(s)}

(***************************************************************************)
(* Bounds of the model.                                                    *)
(***************************************************************************)
MaxRows == 3      \* rows of an input table
MaxLen == 5       \* characters of an enumerated orbital-period text
YearSlack == 5    \* discovery years run from 1590 - YearSlack to 2020 + YearSlack

(***************************************************************************)
(* Characters and texts.                                                   *)
(***************************************************************************)
DigitSeq == <<"0", "1", "2", "3", "4", "5", "6", "7", "8", "9">>
Digit == Range(DigitSeq)
IsDigit(c) == c \in Digit
DigitVal(c) == (CHOOSE i \in 1..Len(DigitSeq) : DigitSeq[i] = c) - 1

\* The characters of the model's names in code-point order (Python compares
\* str values by code point).
CodePointOrder ==
    <<" ", "(", ")", ",", ".", "/",
      "0", "1", "2", "3", "4", "5", "6", "7", "8", "9",
      "E", "I", "M", "P", "T", "V", "X",
      "a", "b", "c", "d", "e", "h", "i", "k", "m", "n", "o", "p", "r", "s",
      "t", "u", "w">>
Ord(c) == CHOOSE i \in 1..Len(CodePointOrder) : CodePointOrder[i] = c

\* a < b for two str values.
LexLess(a, b) ==
    \E k \in 1..(Len(b)) :
        /\ \A j \in 1..(k - 1) : j <= Len(a) /\ a[j] = b[j]
        /\ \/ k = Len(a) + 1
           \/ k <= Len(a) /\ Ord(a[k]) < Ord(b[k])

\* The order sort_index uses on one index level: missing labels last.
LabelLess(x, y) ==
    /\ x # NaN
    /\ (y = NaN \/ LexLess(Val(x), Val(y)))

Prehistoric == <<"P", "r", "e", "h", "i", "s", "t", "o", "r", "i", "c">>
Y1975_2000 == <<"1", "9", "7", "5", "/", "2", "0", "0", "0">>

(***************************************************************************)
(* Numbers in texts.                                                       *)
(***************************************************************************)
\* A non-empty run of digits, and the integer it spells.
IsNumericText(t) == Len(t) > 0 /\ \A i \in 1..Len(t) : IsDigit(t[i])

RECURSIVE DigitsValue(_)
DigitsValue(t) ==
    IF Len(t) = 0 THEN 0
    ELSE 10 * DigitsValue(SubSeq(t, 1, Len(t) - 1)) + DigitVal(t[Len(t)])

\* A float with no trailing zero in the fraction.
RECURSIVE Reduced(_)
Reduced(f) ==
    IF f.e > 0 /\ f.m % 10 = 0 THEN Reduced([m |-> f.m \div 10, e |-> f.e - 1])
    ELSE f

\* float(t) for digits with at most one "." among them.
ParseFloat(t) ==
    LET dots == {i \in 1..Len(t) : t[i] = "."}
    IN  Reduced([m |-> DigitsValue(SelectSeq(t, IsDigit)),
                 e |-> IF dots = {} THEN 0 ELSE Len(t) - (CHOOSE i \in dots : TRUE)])

(***************************************************************************)
(* The table of the page (In[478]).  Its header row is the page's: the     *)
(* period column is spelt either as the contract of the pipeline spells it *)
(* or as the rename step spells it.                                        *)
(***************************************************************************)
PeriodHeaders == {"Sidereal period (d)", "Sidereal period (d) (r = retrograde)"}

SourceColumns(periodHeader) ==
    <<"Parent", "Name", "Numeral", "Discovery year", "Discovered by",
      "Mean radius (km)", "Notes", "Semi-major axis (km)", periodHeader,
      "Image", "Ref(s)">>

\* Four rows of the page: numeral, name, parent, discoverer, semi-major axis
\* and sidereal period as the page prints them.
MoonSeq ==
    << [numeral |-> <<"I">>, name |-> <<"I", "o">>, parent |-> "Jupiter",
        by |-> "Galileo", axis |-> 421800,
        period |-> <<"1", ".", "7", "6", "9">>],
       [numeral |-> <<"I">>, name |-> <<"T", "r", "i", "t", "o", "n">>,
        parent |-> "Neptune", by |-> "Lassell", axis |-> 354800,
        period |-> <<"5", ".", "8", "7", "7", " ", "(", "r", ")">>],
       [numeral |-> <<"I", "I">>, name |-> <<"E", "u", "r", "o", "p", "a">>,
        parent |-> "Jupiter", by |-> "Galileo", axis |-> 671100,
        period |-> <<"3", ".", "5", "5", "1">>],
       [numeral |-> <<"X", "V", "I">>, name |-> <<"T", "h", "e", "b", "e">>,
        parent |-> "Jupiter", by |-> "Synnott", axis |-> 221900,
        period |-> <<"0", ".", "6", "7", "4", "5", " ", "d">>] >>
Thebe == MoonSeq[4]

\* One row of the page's table.
SourceRow(periodHeader, moon, year, axis, period) ==
    [c \in Range(SourceColumns(periodHeader)) |->
        CASE c = "Parent" -> {moon.parent}
          [] c = "Name" -> {moon.name}
          [] c = "Numeral" -> {moon.numeral}
          [] c = "Discovery year" -> {year}
          [] c = "Discovered by" -> {moon.by}
          [] c = "Mean radius (km)" -> NaN
          [] c = "Notes" -> NaN
          [] c = "Semi-major axis (km)" -> axis
          [] c = periodHeader -> {period}
          [] c = "Image" -> NaN
          [] c = "Ref(s)" -> {"[1]"}]

Y1979 == <<"1", "9", "7", "9">>
Y1610 == <<"1", "6", "1", "0">>
Unknown == <<"u", "n", "k", "n", "o", "w", "n">>
RenamedHeader == "Sidereal period (d) (r = retrograde)"

\* The k-th row of a table is the k-th moon of the page.
MoonAt(k) == MoonSeq[((k - 1) % Len(MoonSeq)) + 1]

\* Tables whose keys vary: any of the first three moons (two of them share
\* the numeral I; one period text carries the retrograde mark), repeated or
\* not, each with a year the filter keeps or drops, under either header.
KeyTable(t) ==
    \E h \in PeriodHeaders, n \in 1..MaxRows :
        \E c \in [1..n -> (1..3) \X {Y1979, Prehistoric}] :
            t = [columns |-> SourceColumns(h),
                 rows |-> [k \in 1..n |->
                    SourceRow(h, MoonSeq[c[k][1]], c[k][2],
                              {MoonSeq[c[k][1]].axis}, MoonSeq[c[k][1]].period)]]

\* Tables whose year texts vary, under either header.
YearTable(t) ==
    \E h \in PeriodHeaders, n \in 1..MaxRows :
        \E ys \in [1..n -> {Y1979, Y1610, Prehistoric, Y1975_2000, Unknown}] :
            t = [columns |-> SourceColumns(h),
                 rows |-> [k \in 1..n |->
                    SourceRow(h, MoonAt(k), ys[k], {MoonAt(k).axis}, MoonAt(k).period)]]

\* Tables whose distances vary (missing, tied, distinct) together with a
\* year the filter keeps or drops.
RankTable(t) ==
    \E n \in 1..MaxRows :
        \E c \in [1..n -> {Y1979, Prehistoric} \X {NaN, {100}, {200}}] :
            t = [columns |-> SourceColumns(RenamedHeader),
                 rows |-> [k \in 1..n |->
                    SourceRow(RenamedHeader, MoonAt(k), c[k][1], c[k][2],
                              MoonAt(k).period)]]

\* The decimal text of a year, and the one-row tables over the years around
\* the bin edges.
YearText(y) ==
    <<DigitSeq[((y \div 1000) % 10) + 1], DigitSeq[((y \div 100) % 10) + 1],
      DigitSeq[((y \div 10) % 10) + 1], DigitSeq[(y % 10) + 1]>>

BinTable(t) ==
    \E y \in (1590 - YearSlack)..(2020 + YearSlack) :
        t = [columns |-> SourceColumns(RenamedHeader),
             rows |-> <<SourceRow(RenamedHeader, Thebe, YearText(y),
                                  {Thebe.axis}, Thebe.period)>>]

\* Tables over every period text of at most MaxLen characters: the text
\* alone in its column, or above the row of Thebe.
PeriodAlphabet == {"1", "7", ",", "."}

PeriodTable(t) ==
    \E n \in 1..MaxLen :
        \E p \in [1..n -> PeriodAlphabet] :
            \E rest \in {<<>>, <<SourceRow(RenamedHeader, Thebe, Y1979,
                                            {Thebe.axis}, Thebe.period)>>} :
                t = [columns |-> SourceColumns(RenamedHeader),
                     rows |-> <<SourceRow(RenamedHeader, MoonSeq[1], Y1979,
                                          {MoonSeq[1].axis}, p)>> \o rest]

(***************************************************************************)
(* In[478]: pd.read_html(url)[0] with its defaults (thousands=",",         *)
(* decimal="."): every cell text in thousands form loses its commas; then  *)
(* a column whose every cell text is a number is delivered as numbers      *)
(* (int64 / float64), any other column as its texts (object).  The texts   *)
(* of the model carry no sign and no exponent.                             *)
(***************************************************************************)
\* The thousands rule: a text that holds a comma and has the form
\* ([0-9]+,|[0-9])*(\.[0-9]*)? loses its commas before it is parsed.
ThousandsForm(t) ==
    \E n \in 0..Len(t) :
        /\ \A j \in 1..n :
              \/ IsDigit(t[j])
              \/ (t[j] = "," /\ j > 1 /\ IsDigit(t[j - 1]))
        /\ n < Len(t) =>
              /\ t[n + 1] = "."
              /\ \A j \in (n + 2)..Len(t) : IsDigit(t[j])

StripThousands(t) ==
    IF (\E i \in 1..Len(t) : t[i] = ",") /\ ThousandsForm(t)
    THEN SelectSeq(t, LAMBDA c : c # ",")
    ELSE t

\* The text parses as a number: digits, at most one "." among them.
IsNumberText(t) ==
    LET u == StripThousands(t)
    IN  /\ \E i \in 1..Len(u) : IsDigit(u[i])
        /\ \A i \in 1..Len(u) : IsDigit(u[i]) \/ u[i] = "."
        /\ Cardinality({i \in 1..Len(u) : u[i] = "."}) <= 1

\* The column c of the page holds nothing but numbers.
NumericColumn(page, c) ==
    \A k \in DOMAIN page.rows :
        page.rows[k][c] # NaN => IsNumberText(Val(page.rows[k][c]))

PeriodHeader(page) == CHOOSE c \in Range(page.columns) : c \in PeriodHeaders

\* The columns whose cells the model holds as texts, character by character.
TextColumns(page) == {"Name", "Numeral", "Discovery year", PeriodHeader(page)}

\* The rows read_html delivers: a text cell without the commas of its
\* thousands form; the cells of a numeric year column as integers, those of a
\* numeric period column as floats.
read_html(page) ==
    [k \in DOMAIN page.rows |->
        [c \in DOMAIN page.rows[k] |->
            LET cell == page.rows[k][c]
            IN  IF cell = NaN \/ c \notin TextColumns(page) THEN cell
                ELSE IF c = "Discovery year" /\ NumericColumn(page, c)
                THEN {DigitsValue(StripThousands(Val(cell)))}
                ELSE IF c = PeriodHeader(page) /\ NumericColumn(page, c)
                THEN {ParseFloat(StripThousands(Val(cell)))}
                ELSE {StripThousands(Val(cell))}]]

\* df after read_html: the delivered rows, each under its RangeIndex label.
Init ==
    /\ \/ KeyTable(src)
       \/ YearTable(src)
       \/ RankTable(src)
       \/ BinTable(src)
       \/ PeriodTable(src)
    /\ df = [i \in DOMAIN src.rows |-> read_html(src)[i] @@ ("id" :> i)]
    /\ columns = src.columns
    /\ index = <<>>
    /\ pc = "In[448]"
    /\ err = NoError

\* A statement raises: nothing after it runs.
Raise(cell, exc) ==
    /\ pc' = "aborted"
    /\ err' = [cell |-> cell, exc |-> exc]

(***************************************************************************)
(* In[448]: rename.  Labels the mapping does not name are left as they are.*)
(***************************************************************************)
\* Mutants of the mapping: one entry misspelt, so that the label is not found.
RenameColumn_NameMissed(c) ==
    CASE c = "Parent" -> "Parent Planet"
      [] c = "Moon" -> "Moon name"
      [] c = "Numeral" -> "Numeric moon name"
      [] c = "Semi-major axis (km)" -> "Mean distance(km)"
      [] c = "Sidereal period (d) (r = retrograde)" -> "Orbital period(days)"
      [] OTHER -> c

RenameColumn_AxisMissed(c) ==
    CASE c = "Parent" -> "Parent Planet"
      [] c = "Name" -> "Moon name"
      [] c = "Numeral" -> "Numeric moon name"
      [] c = "Semi-major axis" -> "Mean distance(km)"
      [] c = "Sidereal period (d) (r = retrograde)" -> "Orbital period(days)"
      [] OTHER -> c

RenameColumn(c) ==
    CASE c = "Parent" -> "Parent Planet"
      [] c = "Name" -> "Moon name"
      [] c = "Numeral" -> "Numeric moon name"
      [] c = "Semi-major axis (km)" -> "Mean distance(km)"
      [] c = "Sidereal period (d) (r = retrograde)" -> "Orbital period(days)"
      [] OTHER -> c

Relabel(r) ==
    [c2 \in {RenameColumn(c) : c \in DOMAIN r} |->
        r[CHOOSE c \in DOMAIN r : RenameColumn(c) = c2]]

Rename ==
    /\ pc = "In[448]"
    /\ df' = [i \in DOMAIN df |-> Relabel(df[i])]
    /\ columns' = [i \in DOMAIN columns |-> RenameColumn(columns[i])]
    /\ pc' = "In[449]"
    /\ UNCHANGED <<src, index, err>>

(***************************************************************************)
(* In[449]: del df["Image"]; del df["Ref(s)"].                             *)
(***************************************************************************)
Without(r, c) == [k \in DOMAIN r \ {c} |-> r[k]]
DropLabel(s, c) == SelectSeq(s, LAMBDA x : x # c)

Prune ==
    /\ pc = "In[449]"
    /\ IF "Image" \notin Range(columns)
       THEN Raise("In[449]", "KeyError") /\ UNCHANGED <<df, columns>>
       ELSE IF "Ref(s)" \notin Range(columns)
       THEN /\ Raise("In[449]", "KeyError")
            /\ df' = [i \in DOMAIN df |-> Without(df[i], "Image")]
            /\ columns' = DropLabel(columns, "Image")
       ELSE /\ df' = [i \in DOMAIN df |-> Without(Without(df[i], "Image"), "Ref(s)")]
            /\ columns' = DropLabel(DropLabel(columns, "Image"), "Ref(s)")
            /\ pc' = "In[450]"
            /\ err' = err
    /\ UNCHANGED <<src, index>>

(***************************************************************************)
(* In[450]: reindex(columns=column_names).  A label the frame lacks        *)
(* becomes a column of missing values.                                     *)
(***************************************************************************)
column_names ==
    <<"Numeric moon name", "Moon name", "Discovery year", "Discovered by",
      "Mean radius (km)", "Notes", "Parent Planet", "Mean distance(km)",
      "Orbital period(days)">>

Reindex(r, names) ==
    [c \in Range(names) \cup {"id"} |-> IF c \in DOMAIN r THEN r[c] ELSE NaN]

Reorder ==
    /\ pc = "In[450]"
    /\ df' = [i \in DOMAIN df |-> Reindex(df[i], column_names)]
    /\ columns' = column_names
    /\ pc' = "In[451]"
    /\ UNCHANGED <<src, index, err>>

(***************************************************************************)
(* In[451]: set_index(keys).sort_index(level=[0,1]).  No integrity check,  *)
(* no deduplication; the sort is stable.                                   *)
(***************************************************************************)
index_keys == <<"Numeric moon name", "Moon name">>

KeyLess(r1, r2) ==
    \/ LabelLess(r1[index_keys[1]], r2[index_keys[1]])
    \/ /\ r1[index_keys[1]] = r2[index_keys[1]]
       /\ LabelLess(r1[index_keys[2]], r2[index_keys[2]])

\* The rows in ascending order of their keys; equal keys keep their order.
sort_index(rows) ==
    LET n == Len(rows)
        pos(i) == 1 + Cardinality({j \in 1..n :
                        \/ KeyLess(rows[j], rows[i])
                        \/ (~KeyLess(rows[i], rows[j]) /\ j < i)})
    IN  [k \in 1..n |-> rows[CHOOSE i \in 1..n : pos(i) = k]]

SetIndex ==
    /\ pc = "In[451]"
    /\ df' = sort_index(df)
    /\ index' = index_keys
    /\ columns' = SelectSeq(columns, LAMBDA c : c \notin Range(index_keys))
    /\ pc' = "In[453]"
    /\ UNCHANGED <<src, err>>

(***************************************************************************)
(* In[453]: the boolean-mask filter on the two literal year texts.  In a   *)
(* column of integers no cell equals a text: every row is kept.            *)
(***************************************************************************)
\* The dtype of df["Discovery year"] as read_html delivered it.
year_dtype == IF NumericColumn(src, "Discovery year") THEN "int64" ELSE "object"

\* Mutants of the mask: the second literal forgotten; every unparsable text
\* dropped.
KeepYear_OnlyPrehistoric(cell) == cell # {Prehistoric}
KeepYear_Parsable(cell) == cell # NaN /\ IsNumericText(Val(cell))

KeepYear(cell) == cell # {Prehistoric} /\ cell # {Y1975_2000}

Filter ==
    /\ pc = "In[453]"
    /\ df' = IF year_dtype = "object"
             THEN SelectSeq(df, LAMBDA r : KeepYear(r["Discovery year"]))
             ELSE df
    /\ pc' = "In[454]"
    /\ UNCHANGED <<src, columns, index, err>>

(***************************************************************************)
(* In[454]: pd.to_numeric (errors='raise').  Over the year texts of the    *)
(* model a text parses when it is a non-empty run of digits; a column of   *)
(* integers is returned as it is.                                          *)
(***************************************************************************)
to_numeric(cell) == IF cell = NaN THEN NaN ELSE {DigitsValue(Val(cell))}

ToNumeric ==
    /\ pc = "In[454]"
    /\ IF year_dtype # "object"
       THEN df' = df /\ pc' = "In[455]" /\ err' = err
       ELSE IF \E i \in DOMAIN df :
            /\ df[i]["Discovery year"] # NaN
            /\ ~IsNumericText(Val(df[i]["Discovery year"]))
       THEN Raise("In[454]", "ValueError") /\ df' = df
       ELSE /\ df' = [i \in DOMAIN df |->
                        [df[i] EXCEPT !["Discovery year"] = to_numeric(@)]]
            /\ pc' = "In[455]"
            /\ err' = err
    /\ UNCHANGED <<src, columns, index>>

(***************************************************************************)
(* In[455]: sort_values(by="Discovery year", ascending=False).  Missing    *)
(* years go last; rows with equal years keep their order (the sort is      *)
(* stable on tables of this size).                                         *)
(***************************************************************************)
YearAfter(r1, r2) ==
    /\ r1["Discovery year"] # NaN
    /\ \/ r2["Discovery year"] = NaN
       \/ Val(r1["Discovery year"]) > Val(r2["Discovery year"])

\* The rows in descending order of their years; equal years keep their order.
sort_values(rows) ==
    LET n == Len(rows)
        pos(i) == 1 + Cardinality({j \in 1..n :
                        \/ YearAfter(rows[j], rows[i])
                        \/ (~YearAfter(rows[i], rows[j]) /\ j < i)})
    IN  [k \in 1..n |-> rows[CHOOSE i \in 1..n : pos(i) = k]]

SortValues ==
    /\ pc = "In[455]"
    /\ df' = sort_values(df)
    /\ pc' = "In[457]"
    /\ UNCHANGED <<src, columns, index, err>>

(***************************************************************************)
(* In[456], In[457]: bins = np.linspace(1590, 2020, 11) and pd.cut with    *)
(* its defaults (right=True, include_lowest=False): ten intervals, each    *)
(* open on the left and closed on the right.                               *)
(***************************************************************************)
linspace_start == 1590
linspace_stop == 2020
linspace_num == 11

\* The i-th edge; the step (stop - start) / (num - 1) is a whole number here.
bins(i) ==
    linspace_start + ((i - 1) * (linspace_stop - linspace_start)) \div (linspace_num - 1)

\* Mutant: right=False, intervals closed on the left.
InBin_LeftClosed(y, i) == bins(i) <= y /\ y < bins(i + 1)

InBin(y, i) == bins(i) < y /\ y <= bins(i + 1)

cut(cell) ==
    IF cell = NaN \/ ~\E i \in 1..(linspace_num - 1) : InBin(Val(cell), i)
    THEN NaN
    ELSE LET i == CHOOSE k \in 1..(linspace_num - 1) : InBin(Val(cell), k)
         IN  {<<bins(i), bins(i + 1)>>}

Cut ==
    /\ pc = "In[457]"
    /\ df' = [i \in DOMAIN df |->
                df[i] @@ ("Year bin" :> cut(df[i]["Discovery year"]))]
    /\ columns' = Append(columns, "Year bin")
    /\ pc' = "In[458]"
    /\ UNCHANGED <<src, index, err>>

(***************************************************************************)
(* In[458]: rank(method='min', ascending=True) over the rows df holds now, *)
(* then del df['Mean distance(km)'].  A missing distance gets no rank and  *)
(* is not counted.                                                         *)
(***************************************************************************)
\* Mutant: method='max'.
RankMax(rows, i) ==
    IF rows[i]["Mean distance(km)"] = NaN THEN NaN
    ELSE {Cardinality({j \in DOMAIN rows :
                /\ rows[j]["Mean distance(km)"] # NaN
                /\ Val(rows[j]["Mean distance(km)"]) <= Val(rows[i]["Mean distance(km)"])})}

RankMin(rows, i) ==
    IF rows[i]["Mean distance(km)"] = NaN THEN NaN
    ELSE {1 + Cardinality({j \in DOMAIN rows :
                /\ rows[j]["Mean distance(km)"] # NaN
                /\ Val(rows[j]["Mean distance(km)"]) < Val(rows[i]["Mean distance(km)"])})}

\* Mutant: the ranks taken over every fetched row, as if before the filter.
RankColumn_AllFetched(rows) ==
    [i \in DOMAIN rows |->
        IF rows[i]["Mean distance(km)"] = NaN THEN NaN
        ELSE {1 + Cardinality({j \in DOMAIN src.rows :
                /\ src.rows[j]["Semi-major axis (km)"] # NaN
                /\ Val(src.rows[j]["Semi-major axis (km)"])
                        < Val(rows[i]["Mean distance(km)"])})}]

RankColumn(rows) == [i \in DOMAIN rows |-> RankMin(rows, i)]

Rank ==
    /\ pc = "In[458]"
    /\ df' = [i \in DOMAIN df |->
                Without(df[i], "Mean distance(km)")
                    @@ ("Mean distance rank" :> RankColumn(df)[i])]
    /\ columns' = Append(DropLabel(columns, "Mean distance(km)"), "Mean distance rank")
    /\ pc' = "In[459]"
    /\ UNCHANGED <<src, index, err>>

(***************************************************************************)
(* In[459]: .str.extract('(\d+\,?\d+\.?\d+)').  re.search: the leftmost    *)
(* start that matches, and there the first match in backtracking order     *)
(* (every quantifier greedy).  The .str accessor exists only on a column   *)
(* of strings: a column reindex created, or one read_html delivered as     *)
(* numbers, has none.                                                      *)
(***************************************************************************)
DigitRun(t, a) ==
    Cardinality({e \in a..Len(t) : \A j \in a..e : IsDigit(t[j])})

Optional(t, a, c) == IF a <= Len(t) /\ t[a] = c THEN {1, 0} ELSE {0}

\* The ways \d+ ,? \d+ .? \d+ matches t from position a: the lengths of the
\* five parts.
ParsesAt(t, a) ==
    UNION { UNION { UNION { UNION {
        { <<n1, k, n2, p, n3>> : n3 \in 1..DigitRun(t, a + n1 + k + n2 + p) } :
            p \in Optional(t, a + n1 + k + n2, ".") } :
            n2 \in 1..DigitRun(t, a + n1 + k) } :
            k \in Optional(t, a + n1, ",") } :
            n1 \in 1..DigitRun(t, a) }

\* p is tried before q: the first part where they differ is longer in p.
TriedFirst(p, q) ==
    \E k \in 1..5 : p[k] > q[k] /\ \A j \in 1..(k - 1) : p[j] = q[j]

FirstMatch(t) ==
    LET a == CHOOSE x \in 1..Len(t) :
                /\ ParsesAt(t, x) # {}
                /\ \A y \in 1..(x - 1) : ParsesAt(t, y) = {}
        p == CHOOSE x \in ParsesAt(t, a) :
                \A y \in ParsesAt(t, a) \ {x} : TriedFirst(x, y)
    IN  SubSeq(t, a, a + p[1] + p[2] + p[3] + p[4] + p[5] - 1)

str_extract(cell) ==
    IF cell = NaN \/ \A a \in 1..Len(Val(cell)) : ParsesAt(Val(cell), a) = {}
    THEN NaN
    ELSE {FirstMatch(Val(cell))}

\* The dtype of df["Orbital period(days)"]: float64 when reindex had to
\* create the column or read_html delivered numbers, object when read_html
\* delivered texts.
period_dtype ==
    IF \E c \in Range(src.columns) : RenameColumn(c) = "Orbital period(days)"
    THEN IF NumericColumn(src, PeriodHeader(src)) THEN "float64" ELSE "object"
    ELSE "float64"

Extract ==
    /\ pc = "In[459]"
    /\ IF period_dtype # "object"
       THEN Raise("In[459]", "AttributeError") /\ df' = df
       ELSE /\ df' = [i \in DOMAIN df |->
                        [df[i] EXCEPT !["Orbital period(days)"] = str_extract(@)]]
            /\ pc' = "In[460]"
            /\ err' = err
    /\ UNCHANGED <<src, columns, index>>

(***************************************************************************)
(* In[460]: .str.replace(",", "").                                         *)
(***************************************************************************)
str_replace(cell) ==
    IF cell = NaN THEN NaN ELSE {SelectSeq(Val(cell), LAMBDA c : c # ",")}

Replace ==
    /\ pc = "In[460]"
    /\ df' = [i \in DOMAIN df |->
                [df[i] EXCEPT !["Orbital period(days)"] = str_replace(@)]]
    /\ pc' = "In[461]"
    /\ UNCHANGED <<src, columns, index, err>>

(***************************************************************************)
(* In[461]: .astype(float), then .descrie(): Series has no such attribute, *)
(* so the statement raises and the run ends here.                          *)
(***************************************************************************)
astype_float(cell) == IF cell = NaN THEN NaN ELSE {ParseFloat(Val(cell))}

AsFloat ==
    /\ pc = "In[461]"
    /\ df' = [i \in DOMAIN df |->
                [df[i] EXCEPT !["Orbital period(days)"] = astype_float(@)]]
    /\ Raise("In[461]", "AttributeError")
    /\ UNCHANGED <<src, columns, index>>

\* The cells after In[461] (the division by 365 of In[462], the projection of
\* In[463] and the value_counts queries) come after the statement that always
\* raises: no run reaches them.
Next ==
    \/ Rename
    \/ Prune
    \/ Reorder
    \/ SetIndex
    \/ Filter
    \/ ToNumeric
    \/ SortValues
    \/ Cut
    \/ Rank
    \/ Extract
    \/ Replace
    \/ AsFloat

Spec == Init /\ [][Next]_vars

(***************************************************************************)
(* In[463]: the projection the run would end with.                         *)
(***************************************************************************)
column_names2 ==
    <<"Discovery year", "Year bin", "Discovered by", "Mean radius (km)", "Notes",
      "Parent Planet", "Mean distance rank", "Orbital period(yrs)">>

(***************************************************************************)
(* Properties.                                                             *)
(***************************************************************************)
CellSeq ==
    <<"In[448]", "In[449]", "In[450]", "In[451]", "In[453]", "In[454]",
      "In[455]", "In[457]", "In[458]", "In[459]", "In[460]", "In[461]">>
CellPos(c) == CHOOSE i \in 1..Len(CellSeq) : CellSeq[i] = c

\* The cell c has run to its end.
Completed(c) == CellPos(c) < CellPos(IF pc = "aborted" THEN err.cell ELSE pc)
AbortedIn(c) == pc = "aborted" /\ err.cell = c
RunEnded == pc \in {"aborted", "done"}

\* The row read_html delivered that a row of df comes from, and the cells of
\* that row as the page prints them.
Fetched(r) == read_html(src)[r.id]
FetchedIds == DOMAIN src.rows
FetchedYear(k) == src.rows[k]["Discovery year"]
FetchedAxis(k) == src.rows[k]["Semi-major axis (km)"]
FetchedKey(k) == <<src.rows[k]["Numeral"], src.rows[k]["Name"]>>
\* The period cell of a fetched row as read_html delivered it.
FetchedPeriod(k) == read_html(src)[k][PeriodHeader(src)]
\* The period column reaches In[459] as a column of texts.
PeriodTexts == period_dtype = "object"
TwoLiterals == {{Prehistoric}, {Y1975_2000}}
PastTheMask == {k \in FetchedIds : FetchedYear(k) \notin TwoLiterals}
WellFormedYears ==
    \A k \in PastTheMask : IsNumericText(Val(FetchedYear(k)))
Ids == {df[i].id : i \in DOMAIN df}
Key(r) == <<r["Numeric moon name"], r["Moon name"]>>

\* C1 (as claimed): on a table with the contract's columns whose only
\* unparsable year texts are the two literals, the run does not abort and ends
\* with the eight output columns keyed by (Numeric moon name, Moon name).  The
\* period column is taken as a column of texts under the header the rename
\* step knows; under the header "Sidereal period (d)", or when every period
\* cell is a number, the run ends two cells earlier, in In[459].
C1_RunsToTheFinalProjection ==
    (PeriodTexts /\ WellFormedYears /\ RunEnded)
        => /\ pc = "done"
           /\ columns = column_names2
           /\ index = index_keys

\* The leading decimal number of a text: digits, groups of digits joined by
\* single commas, then optionally a point and digits.
LeadingNumber(t) ==
    LET ints == {n \in 1..Len(t) :
                    /\ IsDigit(t[n])
                    /\ \A j \in 1..n : IsDigit(t[j]) \/ t[j] = ","
                    /\ \A j \in 1..(n - 1) : ~(t[j] = "," /\ t[j + 1] = ",")}
        n0 == CHOOSE n \in ints : \A m \in ints : m <= n
        frac == IF n0 + 1 <= Len(t) /\ t[n0 + 1] = "." /\ DigitRun(t, n0 + 2) > 0
                THEN 1 + DigitRun(t, n0 + 2) ELSE 0
    IN  SubSeq(t, 1, n0 + frac)
BeginsWithNumber(t) == Len(t) > 0 /\ IsDigit(t[1])
NoCommas(t) == SelectSeq(t, LAMBDA c : c # ",")

\* C2 (as claimed): in a period column of texts, for every text that begins
\* with a decimal number the extracted token is that whole leading number, the
\* commas are then removed, and the day count is its value ("0.6745 d" gives
\* 0.6745 days).
C2_TokenIsTheLeadingNumber ==
    \A i \in DOMAIN df :
        LET t == Val(FetchedPeriod(df[i].id))
        IN  (PeriodTexts /\ BeginsWithNumber(t)) =>
              /\ pc = "In[460]" => df[i]["Orbital period(days)"] = {LeadingNumber(t)}
              /\ pc = "In[461]" =>
                    df[i]["Orbital period(days)"] = {NoCommas(LeadingNumber(t))}
              /\ AbortedIn("In[461]") =>
                    df[i]["Orbital period(days)"]
                        = {ParseFloat(NoCommas(LeadingNumber(t)))}

\* The ten intervals of width 43 from 1590 to 2020, as pairs of edges.
TenIntervals == {<<1590 + 43 * k, 1590 + 43 * (k + 1)>> : k \in 0..9}

\* C3 (as claimed): Year bin is undefined only for a year outside [1590, 2020]:
\* every year from 1590 to 2020, both ends included, has a bin that holds it.
C3_EveryYearFrom1590Has_A_Bin ==
    Completed("In[457]") =>
        \A i \in DOMAIN df :
            LET y == Val(df[i]["Discovery year"])
            IN  /\ df[i]["Year bin"] = NaN <=> ~(1590 <= y /\ y <= 2020)
                /\ df[i]["Year bin"] # NaN => df[i]["Year bin"] \subseteq TenIntervals

\* C3 (amended): Year bin is defined exactly for 1590 < year <= 2020, and is
\* then the one interval (lo, hi] of the ten with lo < year <= hi; 1590 itself
\* has no bin.
C3_YearBinIsTheLeftOpenInterval ==
    Completed("In[457]") =>
        \A i \in DOMAIN df :
            LET y == Val(df[i]["Discovery year"])
                b == df[i]["Year bin"]
            IN  /\ b = NaN <=> ~(1590 < y /\ y <= 2020)
                /\ b # NaN =>
                     /\ b \subseteq TenIntervals
                     /\ Val(b)[1] < y /\ y <= Val(b)[2]
                     /\ \A v \in TenIntervals : (v[1] < y /\ y <= v[2]) => v = Val(b)

C3_Witness ==
    /\ Completed("In[457]")
    /\ \E i \in DOMAIN df :
        df[i]["Discovery year"] = {1979} /\ df[i]["Year bin"] = {<<1977, 2020>>}

\* The rows of df that have a rank, and the rank and fetched distance of a row.
RankOf(r) == r["Mean distance rank"]
AxisOf(r) == FetchedAxis(r.id)

\* C4 (as claimed): every row has a positive rank; the smallest distance has
\* rank 1, equal distances have equal ranks, a smaller distance has a smaller
\* rank, and a tied group shares its minimum rank.
C4_EveryRowHasACompetitionRank ==
    Completed("In[458]") =>
        \A i \in DOMAIN df :
            /\ RankOf(df[i]) # NaN
            /\ Val(RankOf(df[i])) >= 1
            /\ \A j \in DOMAIN df :
                /\ AxisOf(df[i]) = AxisOf(df[j]) => RankOf(df[i]) = RankOf(df[j])
                /\ (AxisOf(df[i]) # NaN /\ AxisOf(df[j]) # NaN
                        /\ Val(AxisOf(df[i])) < Val(AxisOf(df[j])))
                    => Val(RankOf(df[i])) < Val(RankOf(df[j]))

\* C4 (amended): every row that has a distance has a positive rank; among
\* those rows the smallest distance has rank 1, equal distances have equal
\* ranks, a smaller distance has a smaller rank, and the rank of a row is one
\* more than the number of rows ranked below it (a tied group shares its
\* minimum rank); a row without a distance has no rank.
C4_RowsWithADistanceHaveACompetitionRank ==
    Completed("In[458]") =>
        LET ranked == {i \in DOMAIN df : AxisOf(df[i]) # NaN}
        IN  /\ \A i \in DOMAIN df \ ranked : RankOf(df[i]) = NaN
            /\ \A i \in ranked :
                /\ RankOf(df[i]) # NaN
                /\ Val(RankOf(df[i])) >= 1
                /\ (\A j \in ranked : Val(AxisOf(df[i])) <= Val(AxisOf(df[j])))
                        => RankOf(df[i]) = {1}
                /\ Val(RankOf(df[i])) - 1
                        = Cardinality({j \in ranked :
                                Val(RankOf(df[j])) < Val(RankOf(df[i]))})
                /\ \A j \in ranked :
                    /\ AxisOf(df[i]) = AxisOf(df[j]) => RankOf(df[i]) = RankOf(df[j])
                    /\ Val(AxisOf(df[i])) < Val(AxisOf(df[j]))
                            => Val(RankOf(df[i])) < Val(RankOf(df[j]))

C4_Witness ==
    /\ Completed("In[458]")
    /\ \E i, j, k \in DOMAIN df :
        /\ i # j
        /\ AxisOf(df[i]) = {100} /\ AxisOf(df[j]) = {100} /\ AxisOf(df[k]) = {200}
        /\ RankOf(df[i]) = {1} /\ RankOf(df[j]) = {1} /\ RankOf(df[k]) = {3}

\* C5: once the mask of In[453] has been applied, df never again holds a row
\* whose fetched year text is "Prehistoric" or "1975/2000".
C5_DroppedYearsStayOut ==
    Completed("In[453]") =>
        \A i \in DOMAIN df : FetchedYear(df[i].id) \notin TwoLiterals

C5_Witness ==
    /\ Completed("In[453]")
    /\ df # <<>>
    /\ \E a, b \in FetchedIds :
        FetchedYear(a) = {Prehistoric} /\ FetchedYear(b) = {Y1975_2000}

\* C6 (as claimed): from set_index on, no two rows of df share both
\* Numeric moon name and Moon name, whatever table was fetched.
C6_KeysAreUnique ==
    Completed("In[451]") =>
        \A i, j \in DOMAIN df : i # j => Key(df[i]) # Key(df[j])

\* C6 (amended): when the fetched rows have pairwise distinct (Numeral, Name),
\* no two rows of df share both index labels from set_index on; fetched rows
\* with the same key are neither rejected nor merged: both stay in df, under
\* the same key, unless the year mask drops them.
C6_KeysAreUniqueWhenFetchedKeysAre ==
    Completed("In[451]") =>
        /\ (\A a, b \in FetchedIds : a # b => FetchedKey(a) # FetchedKey(b))
            => \A i, j \in DOMAIN df : i # j => Key(df[i]) # Key(df[j])
        /\ \A a, b \in FetchedIds :
            (/\ a # b
             /\ FetchedKey(a) = FetchedKey(b)
             /\ Completed("In[453]") => {a, b} \subseteq PastTheMask)
            => \E i, j \in DOMAIN df :
                /\ i # j
                /\ df[i].id = a /\ df[j].id = b
                /\ Key(df[i]) = Key(df[j])

C6_Witness ==
    /\ Completed("In[453]")
    /\ \A a, b \in FetchedIds : a # b => FetchedKey(a) # FetchedKey(b)
    /\ \E i, j \in DOMAIN df :
        /\ i # j
        /\ df[i]["Numeric moon name"] = df[j]["Numeric moon name"]
        /\ df[i]["Moon name"] # df[j]["Moon name"]
    /\ \E a \in FetchedIds : a \notin Ids

\* The columns rename relabels, apart from the period column.
Relabelled ==
    { <<"Parent", "Parent Planet">>, <<"Name", "Moon name">>,
      <<"Numeral", "Numeric moon name">>,
      <<"Semi-major axis (km)", "Mean distance(km)">> }
Untouched == {"Discovery year", "Discovered by", "Mean radius (km)", "Notes"}

\* C7 (as claimed): for a fetched table whose period column is headed
\* "Sidereal period (d)", after rename, prune and reorder every row's
\* Orbital period(days) is its fetched "Sidereal period (d)" value.
C7_SiderealPeriodIsCarriedOver ==
    (pc = "In[451]" /\ "Sidereal period (d)" \in Range(src.columns)) =>
        \A i \in DOMAIN df :
            df[i]["Orbital period(days)"] = Fetched(df[i])["Sidereal period (d)"]

\* C7 (amended): after rename, prune and reorder every fetched row is there,
\* in order, with Parent Planet = Parent, Moon name = Name, Numeric moon name
\* = Numeral, Mean distance(km) = Semi-major axis (km) and the columns that
\* keep their label unchanged; Orbital period(days) is the fetched period when
\* the header is "Sidereal period (d) (r = retrograde)", and missing in every
\* row when the header is "Sidereal period (d)".
C7_RenameRelabelsTheHeadersItNames ==
    pc = "In[451]" =>
        /\ Len(df) = Len(src.rows)
        /\ \A i \in DOMAIN df :
            /\ df[i].id = i
            /\ \A p \in Relabelled : df[i][p[2]] = Fetched(df[i])[p[1]]
            /\ \A c \in Untouched : df[i][c] = Fetched(df[i])[c]
            /\ df[i]["Orbital period(days)"]
                = IF RenamedHeader \in Range(src.columns)
                  THEN Fetched(df[i])[RenamedHeader] ELSE NaN

C7_Witness ==
    /\ pc = "In[451]"
    /\ RenamedHeader \in Range(src.columns)
    /\ Len(df) > 1
    /\ \A i \in DOMAIN df : df[i]["Orbital period(days)"] # NaN

\* C8 (as claimed): every row whose year text does not parse is filtered out,
\* whatever the text, and the run goes on past the conversion.
C8_EveryUnparsableYearIsFiltered ==
    Completed("In[453]") =>
        /\ \A i \in DOMAIN df : IsNumericText(Val(FetchedYear(df[i].id)))
        /\ ~AbortedIn("In[454]")

\* C8 (amended): the mask removes exactly the rows whose year text is
\* "Prehistoric" or "1975/2000"; when every remaining text is a number the
\* conversion turns each into that integer and the run goes on; when a
\* remaining row has any other unparsable text the row is still in df and the
\* conversion raises ValueError, which ends the run in In[454].
C8_OnlyTheTwoLiteralsAreFiltered ==
    Completed("In[453]") =>
        /\ Ids = PastTheMask
        /\ WellFormedYears =>
             /\ ~AbortedIn("In[454]")
             /\ Completed("In[454]") =>
                  \A i \in DOMAIN df :
                      /\ df[i]["Discovery year"] # NaN
                      /\ {YearText(Val(df[i]["Discovery year"]))} = FetchedYear(df[i].id)
        /\ ~WellFormedYears =>
             /\ ~Completed("In[454]")
             /\ pc = "aborted" => err = [cell |-> "In[454]", exc |-> "ValueError"]

C8_Witness ==
    /\ AbortedIn("In[454]")
    /\ \E i \in DOMAIN df : FetchedYear(df[i].id) = {Unknown}
    /\ \E a \in FetchedIds : FetchedYear(a) = {Prehistoric}

\* C9 (as claimed): when the run has ended on a period column of texts, a row
\* whose period text has no extractable token is still in the table, with a
\* missing Orbital period(yrs), and the rows of the table are the fetched rows
\* the year mask kept.
C9_TokenlessRowsReachTheOutput ==
    (/\ RunEnded
     /\ PeriodTexts
     /\ WellFormedYears
     /\ \E k \in PastTheMask : str_extract(FetchedPeriod(k)) = NaN)
    => /\ Ids = PastTheMask
       /\ "Orbital period(yrs)" \in Range(columns)
       /\ \A i \in DOMAIN df :
            str_extract(FetchedPeriod(df[i].id)) = NaN
                => /\ "Orbital period(yrs)" \in DOMAIN df[i]
                   /\ df[i]["Orbital period(yrs)"] = NaN

\* C10: the rank of a row that has a distance is one more than the number of
\* fetched rows that pass the year mask and have a smaller distance: rows the
\* mask drops never count, nor do rows without a distance, which get no rank.
C10_RankCountsKeptRowsOnly ==
    Completed("In[458]") =>
        \A i \in DOMAIN df :
            RankOf(df[i])
                = IF AxisOf(df[i]) = NaN THEN NaN
                  ELSE {1 + Cardinality({k \in PastTheMask :
                            /\ FetchedAxis(k) # NaN
                            /\ Val(FetchedAxis(k)) < Val(AxisOf(df[i]))})}

C10_Witness ==
    /\ Completed("In[458]")
    /\ \E a \in FetchedIds \ PastTheMask : FetchedAxis(a) = {100}
    /\ \E i \in DOMAIN df : AxisOf(df[i]) = {200} /\ RankOf(df[i]) = {1}
    /\ \E i \in DOMAIN df : AxisOf(df[i]) = NaN /\ RankOf(df[i]) = NaN

====
